---- MODULE Spec2Model ----
(***************************************************************************)
(* Two-factor authentication protocol of the password manager: the users   *)
(* collection with its embedded devices, the challenges collection, and    *)
(* the route handlers that read and write them.  A document's id is its    *)
(* position of insertion (uuids are taken to be unique).  Timestamps are   *)
(* counted in minutes, and the clock is observed every ChallengeTTL        *)
(* minutes, so that a request can arrive exactly at, and after, an expiry. *)
(***************************************************************************)
EXTENDS Integers, Sequences, FiniteSets, TLC

VARIABLES users, challenges, now, nextDeviceId, resp, procs, views

vars == <<users, challenges, now, nextDeviceId, resp, procs, views>>

\* ------------------------------------------------------------------ bounds
MaxUsers == 2
MaxDevices == 2
MaxChallenges == 1
MaxTime == 10

\* ---------------------------------------------------------- input domains
Usernames == {"alice", "bob"}
Emails == {"alice@x.com", "bob@x.com"}
Passwords == {"Str0ng!Pass", "0ther!Pass"}
DeviceNames == {"phone"}
PublicKeys == {"pk1", "pk2"}
Codes == {"123456", "654321"}
BackupCodeSets == {"backup-A", "backup-B"}

\* JavaScript null / undefined
Null == "null"

\* ------------------------------------------------------------ pure helpers
\* hashPassword: PBKDF2 of the password under the salt, kept symbolic
hashPassword(password, salt) == <<"pbkdf2", password, salt>>

\* generateSalt: the salt drawn for the n-th inserted account
generateSalt(n) == <<"salt", n>>

\* findOne returns the first matching document in insertion order: the least
\* of the matching positions, 0 when nothing matches
First(matching) ==
    IF matching = {} THEN 0
    ELSE CHOOSE i \in matching : \A j \in matching : i <= j

\* collection.findOne({ id })
FindUserById(userId) == IF userId \in 1..Len(users) THEN userId ELSE 0

\* collection.findOne({ username })
FindUserByUsername(username) ==
    First({i \in 1..Len(users) : users[i].username = username})

\* the response every handler ends with: the success flag and error text,
\* the status a poll reports, the fields of the account view it carries and
\* the other top-level keys of the JSON body
Response(op, success, error) ==
    [op |-> op, success |-> success, error |-> error,
     status |-> Null, userFields |-> {}, body |-> {}]

NoResponse == Response("none", FALSE, "")

\* --------------------------------------------------------- register account
\* collection.findOne({ $or: [{ username }, { email }] })
ExistingUser(username, email) ==
    First({i \in 1..Len(users) :
             users[i].username = username \/ users[i].email = email})

\* the conflict is always reported as one of the username
ConflictError_AlwaysUsername(existingUser, username) == "Username already exists"

\* existingUser.username === data.username ? 'Username already exists'
\*                                         : 'Email already exists'
ConflictError(existingUser, username) ==
    IF existingUser.username = username
    THEN "Username already exists"
    ELSE "Email already exists"

\* the account document POST /api/users inserts as the id-th document
NewUser(id, username, email, password) ==
    LET passwordSalt == generateSalt(id) IN
    [id |-> id,
     username |-> username,
     email |-> email,
     passwordHash |-> hashPassword(password, passwordSalt),
     passwordSalt |-> passwordSalt,
     encryptionKeySalt |-> generateSalt(id),
     lastLoginAt |-> now,
     lastPasswordChangeAt |-> now,
     twoFactorEnabled |-> FALSE,
     devices |-> <<>>,
     backupCodes |-> Null,
     authChallenge |-> Null]

\* the fields of the account view POST /api/users returns
SafeUser(newUser) ==
    DOMAIN newUser \ {"passwordHash", "passwordSalt", "encryptionKeySalt"}

\* POST /api/users (register), the handler from its lookup to its response
Register(username, email, password) ==
    /\ LET existing == ExistingUser(username, email)
           newUser == NewUser(Len(users) + 1, username, email, password)
       IN IF existing # 0
          THEN /\ resp' = Response("register", FALSE,
                                   ConflictError(users[existing], username))
               /\ UNCHANGED users
          ELSE /\ users' = Append(users, newUser)
               /\ resp' = [Response("register", TRUE, "") EXCEPT
                             !.userFields = SafeUser(newUser)]
    /\ UNCHANGED <<challenges, now, nextDeviceId, procs, views>>

\* POST /api/users (register) while the collection has room
RegisterUser(username, email, password) ==
    /\ Len(users) < MaxUsers
    /\ Register(username, email, password)

\* the approve requests that may be in flight together
Requests == {1, 2}

\* a request that has not arrived yet
IdleRequest ==
    [pc |-> "idle", k |-> 0, challenge |-> Null, deviceId |-> 0, userId |-> 0,
     success |-> FALSE, error |-> ""]

\* the browser sessions signed in to the first account
Sessions == {1, 2}

Init ==
    /\ users = <<>>
    /\ challenges = <<>>
    /\ now = 0
    /\ nextDeviceId = 1
    /\ resp = NoResponse
    /\ procs = [p \in Requests |-> IdleRequest]
    /\ views = [s \in Sessions |-> <<>>]

\* ------------------------------------------------------------ device registry
\* users.updateOne({ id }, { $set: fields }) on the document at index i
SetUser(i, doc) == [users EXCEPT ![i] = doc]

\* backup codes are generated for every registration
NeedsBackupCodes_Always(user) == TRUE

\* !user.devices || user.devices.length === 0
NeedsBackupCodes(user) == Len(user.devices) = 0

\* POST /api/users/devices (register a new device)
RegisterDevice(userId, deviceName, publicKey, registrationCode, generated) ==
    /\ nextDeviceId <= MaxDevices
    /\ LET i == FindUserById(userId) IN
       IF i = 0
       THEN /\ resp' = Response("registerDevice", FALSE, "User not found")
            /\ UNCHANGED <<users, nextDeviceId>>
       ELSE LET user == users[i]
                newDevice == [id |-> nextDeviceId,
                              name |-> deviceName,
                              publicKey |-> publicKey,
                              lastUsed |-> now,
                              createdAt |-> now,
                              isVerified |-> FALSE,
                              registrationCode |-> registrationCode]
                backupCodes == IF NeedsBackupCodes(user)
                               THEN generated
                               ELSE user.backupCodes
            IN /\ users' = SetUser(i, [user EXCEPT
                              !.devices = Append(@, newDevice),
                              !.backupCodes = backupCodes,
                              !.twoFactorEnabled = TRUE])
               /\ nextDeviceId' = nextDeviceId + 1
               /\ resp' = Response("registerDevice", TRUE, "")
    /\ UNCHANGED <<challenges, now, procs, views>>

\* collection.findOne({ devices: { $elemMatch: { registrationCode, isVerified: false } } })
FindUserByPendingCode(registrationCode) ==
    First({i \in 1..Len(users) :
             \E k \in 1..Len(users[i].devices) :
                /\ users[i].devices[k].registrationCode = registrationCode
                /\ users[i].devices[k].isVerified = FALSE})

\* the last element of the array, whatever it carries
PositionalDevice_Last(user, registrationCode) == Len(user.devices)

\* the array element the positional operator devices.$ selects for the query
\* { 'devices.registrationCode': registrationCode }
PositionalDevice(user, registrationCode) ==
    First({k \in 1..Len(user.devices) :
             user.devices[k].registrationCode = registrationCode})

\* the name and the public key of the registration kept
VerifiedDevice_AsRegistered(device, deviceName, publicKey) ==
    [device EXCEPT !.isVerified = TRUE,
                   !.lastUsed = now,
                   !.registrationCode = Null]

\* the $set of the verify route on the array element devices.$
VerifiedDevice(device, deviceName, publicKey) ==
    [device EXCEPT !.isVerified = TRUE,
                   !.name = deviceName,
                   !.publicKey = publicKey,
                   !.lastUsed = now,
                   !.registrationCode = Null]

\* POST /api/users/devices/verify (complete a device registration)
VerifyDevice(registrationCode, deviceName, publicKey) ==
    /\ LET i == FindUserByPendingCode(registrationCode) IN
       IF i = 0
       THEN /\ resp' = Response("verifyDevice", FALSE, "Invalid registration code")
            /\ UNCHANGED users
       ELSE LET user == users[i]
                k == PositionalDevice(user, registrationCode)
                updatedUser == [user EXCEPT
                    !.devices[k] = VerifiedDevice(@, deviceName, publicKey),
                    !.lastLoginAt = now]
            IN /\ users' = SetUser(i, updatedUser)
               /\ resp' = [Response("verifyDevice", TRUE, "") EXCEPT
                             !.userFields = DOMAIN updatedUser \
                                {"masterPassword", "securityAnswer"}]
    /\ UNCHANGED <<challenges, now, nextDeviceId, procs, views>>

\* the account document after DELETE has pulled the device and, when the
\* devices it read leave none, cleared the flag
PullDevice(user, deviceId) ==
    LET Keep(d) == d.id # deviceId
        remainingDevices == SelectSeq(user.devices, Keep)
    IN [user EXCEPT
          !.devices = remainingDevices,
          !.twoFactorEnabled = IF Len(remainingDevices) = 0 THEN FALSE ELSE @]

\* DELETE /api/users/devices (remove a device)
DeleteDevice(userId, deviceId) ==
    /\ LET i == FindUserById(userId) IN
       IF i = 0
       THEN /\ resp' = Response("deleteDevice", FALSE, "User not found")
            /\ UNCHANGED users
       ELSE /\ users' = SetUser(i, PullDevice(users[i], deviceId))
            /\ resp' = Response("deleteDevice", TRUE, "")
    /\ UNCHANGED <<challenges, now, nextDeviceId, procs, views>>

\* POST /api/users/devices/reset (reset every device to unverified)
ResetDeviceRegistration(username) ==
    /\ LET i == FindUserByUsername(username) IN
       IF username = Null
       THEN /\ resp' = Response("resetDevices", FALSE, "Username is required")
            /\ UNCHANGED users
       ELSE IF i = 0
       THEN /\ resp' = Response("resetDevices", FALSE, "User not found")
            /\ UNCHANGED users
       ELSE LET user == users[i] IN
            /\ users' = SetUser(i, [user EXCEPT
                  !.devices = [k \in 1..Len(user.devices) |->
                                 [user.devices[k] EXCEPT !.isVerified = FALSE,
                                                         !.registrationCode = Null]],
                  !.authChallenge = Null])
            /\ resp' = Response("resetDevices", TRUE, "")
    /\ UNCHANGED <<challenges, now, nextDeviceId, procs, views>>

\* ------------------------------------------------------------ challenge engine
\* crypto.randomUUID() of the n-th inserted challenge
ChallengeId(n) == "ch" \o ToString(n)

\* challengesCollection.findOne({ id })
FindChallengeById(challengeId) ==
    First({k \in 1..Len(challenges) : challenges[k].id = challengeId})

\* challengesCollection.findOne({ verificationCode })
FindChallengeByCode(verificationCode) ==
    First({k \in 1..Len(challenges) :
             challenges[k].verificationCode = verificationCode})

\* challengesCollection.updateOne({ id }, { $set: { status } }) on index k
SetStatus(k, status) == [challenges EXCEPT ![k].status = status]

\* new Date() >= new Date(challenge.expiresAt): the boundary counted as expired
IsExpired_AtBoundary(challenge) == now >= challenge.expiresAt

\* new Date() > new Date(challenge.expiresAt)
IsExpired(challenge) == now > challenge.expiresAt

\* no check of the status at all
IsPending_Unchecked(challenge) == TRUE

\* challenge.status !== 'pending' is what rejects an approval
IsPending(challenge) == challenge.status = "pending"

\* 5 * 60 * 1000 ms
ChallengeTTL == 5

\* no lifetime: the challenge expires at the instant it is created
ExpiresAt_AtCreation(createdAt) == createdAt

\* new Date(Date.now() + 5 * 60 * 1000); setMinutes(getMinutes() + 5)
ExpiresAt(createdAt) == createdAt + ChallengeTTL

\* the challenge document POST /api/users/auth-challenge inserts as the
\* n-th document of the collection
NewChallenge(n, userId, deviceId, isPasswordReset, verificationCode) ==
    [id |-> ChallengeId(n),
     userId |-> userId,
     deviceId |-> deviceId,
     verificationCode |-> verificationCode,
     isPasswordReset |-> isPasswordReset,
     status |-> "pending",
     createdAt |-> now,
     expiresAt |-> ExpiresAt(now)]

\* POST /api/users/auth-challenge (create a challenge); a userId or deviceId
\* the request leaves out is 0
PostChallenge(userId, deviceId, isPasswordReset, verificationCode) ==
    /\ IF userId = 0 \/ deviceId = 0
       THEN /\ resp' = Response("createChallenge", FALSE, "Missing required fields")
            /\ UNCHANGED challenges
       ELSE LET challenge == NewChallenge(Len(challenges) + 1, userId, deviceId,
                                          isPasswordReset, verificationCode)
            IN /\ challenges' = Append(challenges, challenge)
               /\ resp' = Response("createChallenge", TRUE, "")
    /\ UNCHANGED <<users, now, nextDeviceId, procs, views>>

\* a create request while the collection has room
CreateChallenge(userId, deviceId, isPasswordReset, verificationCode) ==
    /\ Len(challenges) < MaxChallenges
    /\ PostChallenge(userId, deviceId, isPasswordReset, verificationCode)

\* no comparison of the device and the user at all
Mismatch_Unchecked(challenge, deviceId, userId) == FALSE

\* challenge.deviceId !== deviceId || challenge.userId !== userId
Mismatch(challenge, deviceId, userId) ==
    challenge.deviceId # deviceId \/ challenge.userId # userId

\* what PUT decides from the challenge document it has read: the status it
\* writes (Null for no write) and the response it returns
VerifyDecision(challenge, response, deviceId, userId) ==
    IF ~IsPending(challenge)
    THEN [write |-> Null, success |-> FALSE, error |-> "Challenge is no longer valid"]
    ELSE IF IsExpired(challenge)
    THEN [write |-> "expired", success |-> FALSE, error |-> "Challenge has expired"]
    ELSE IF Mismatch(challenge, deviceId, userId)
    THEN [write |-> Null, success |-> FALSE, error |-> "Invalid device or user"]
    ELSE [write |-> "approved", success |-> TRUE, error |-> ""]

\* findOne({ id: challengeId }), then findOne({ verificationCode: challengeId })
LookupChallenge(challengeId) ==
    LET byId == FindChallengeById(challengeId)
    IN IF byId # 0 THEN byId ELSE FindChallengeByCode(challengeId)

\* PUT /api/users/auth-challenge (the device approves a challenge)
VerifyChallenge(challengeId, response, deviceId, userId) ==
    /\ LET k == LookupChallenge(challengeId) IN
       IF k = 0
       THEN /\ resp' = Response("verifyChallenge", FALSE, "Challenge not found")
            /\ UNCHANGED challenges
       ELSE LET decision == VerifyDecision(challenges[k], response, deviceId, userId) IN
            /\ challenges' = IF decision.write = Null
                             THEN challenges
                             ELSE SetStatus(k, decision.write)
            /\ resp' = Response("verifyChallenge", decision.success, decision.error)
    /\ UNCHANGED <<users, now, nextDeviceId, procs, views>>

\* GET /api/users/auth-challenge (poll a challenge's status)
GetChallengeStatus(challengeId) ==
    /\ LET k == FindChallengeById(challengeId) IN
       IF k = 0
       THEN resp' = Response("getStatus", FALSE, "Challenge not found")
       ELSE resp' = [Response("getStatus", TRUE, "") EXCEPT
                       !.status = challenges[k].status]
    /\ UNCHANGED <<users, challenges, now, nextDeviceId, procs, views>>

\* POST /api/users/complete-auth
CompleteAuth(challengeId, verificationCode) ==
    /\ LET k == FindChallengeById(challengeId)
           R(error) == Response("completeAuth", FALSE, error)
       IN IF k = 0
          THEN /\ resp' = R("Challenge not found")
               /\ UNCHANGED <<users, challenges>>
          ELSE LET challenge == challenges[k]
                   isLogin == ~challenge.isPasswordReset
                   i == FindUserById(challenge.userId)
               IN IF IsExpired(challenge)
                  THEN /\ resp' = R("Challenge expired")
                       /\ UNCHANGED <<users, challenges>>
                  ELSE IF isLogin /\ challenge.status # "approved"
                  THEN /\ resp' = R("Challenge not yet approved")
                       /\ UNCHANGED <<users, challenges>>
                  ELSE IF ~isLogin /\ verificationCode = Null
                  THEN /\ resp' = R("Missing required field: verificationCode")
                       /\ UNCHANGED <<users, challenges>>
                  ELSE IF ~isLogin /\ challenge.verificationCode # verificationCode
                  THEN /\ resp' = R("Invalid verification code")
                       /\ UNCHANGED <<users, challenges>>
                  ELSE IF i = 0
                  THEN /\ resp' = R("User not found")
                       /\ UNCHANGED <<users, challenges>>
                  ELSE LET user == users[i] IN
                       /\ challenges' = SetStatus(k, "completed")
                       /\ users' = SetUser(i, [user EXCEPT
                             !.lastLoginAt = now,
                             !.twoFactorEnabled = IF isLogin THEN TRUE ELSE @])
                       /\ resp' = [Response("completeAuth", TRUE, "") EXCEPT
                                     !.userFields = DOMAIN user \ {"masterPassword"}]
    /\ UNCHANGED <<now, nextDeviceId, procs, views>>

\* the value of verificationCode that asks for the challenge's status instead
ApprovedMarker == "approved"

\* usersCollection.findOne({ username, email })
FindUserByUsernameAndEmail(username, email) ==
    First({i \in 1..Len(users) :
             users[i].username = username /\ users[i].email = email})

\* challengesCollection.findOne({ id, userId, isPasswordReset: true })
FindResetChallenge(challengeId, userId) ==
    First({k \in 1..Len(challenges) :
             /\ challenges[k].id = challengeId
             /\ challenges[k].userId = userId
             /\ challenges[k].isPasswordReset})

\* POST /api/users/reset-password
ResetPassword(username, email, newPassword, challengeId, verificationCode) ==
    /\ LET i == FindUserByUsernameAndEmail(username, email)
           R(error) == Response("resetPassword", FALSE, error)
       IN IF i = 0
          THEN /\ resp' = Response("resetPassword", FALSE, "User not found")
               /\ UNCHANGED <<users, challenges>>
          ELSE LET user == users[i]
                   k == FindResetChallenge(challengeId, user.id)
                   updated == [user EXCEPT
                       !.passwordHash = hashPassword(newPassword, user.passwordSalt),
                       !.lastPasswordChangeAt = now]
                   ok == Response("resetPassword", TRUE, "")
               IN IF ~user.twoFactorEnabled
                  THEN /\ users' = SetUser(i, updated)
                       /\ resp' = ok
                       /\ UNCHANGED challenges
                  ELSE IF challengeId = Null \/ verificationCode = Null
                  THEN /\ resp' = R("Authentication required")
                       /\ UNCHANGED <<users, challenges>>
                  ELSE IF k = 0
                  THEN /\ resp' = R("Invalid challenge")
                       /\ UNCHANGED <<users, challenges>>
                  ELSE IF /\ verificationCode = ApprovedMarker
                          /\ challenges[k].status # "approved"
                  THEN /\ resp' = R("Challenge not yet approved")
                       /\ UNCHANGED <<users, challenges>>
                  ELSE IF /\ verificationCode # ApprovedMarker
                          /\ challenges[k].verificationCode # verificationCode
                  THEN /\ resp' = R("Invalid verification code")
                       /\ UNCHANGED <<users, challenges>>
                  ELSE IF IsExpired(challenges[k])
                  THEN /\ resp' = R("Challenge expired")
                       /\ UNCHANGED <<users, challenges>>
                  ELSE /\ challenges' = SetStatus(FindChallengeById(challengeId), "used")
                       /\ users' = SetUser(i, updated)
                       /\ resp' = ok
    /\ UNCHANGED <<now, nextDeviceId, procs, views>>

\* the wall clock advances
Tick ==
    /\ now + ChallengeTTL <= MaxTime
    /\ now' = now + ChallengeTTL
    /\ UNCHANGED <<users, challenges, nextDeviceId, resp, procs, views>>

UserIds == 1..MaxUsers
DeviceIds == 1..MaxDevices

DoRegisterUser ==
    \E n \in Usernames, e \in Emails, p \in {"Str0ng!Pass"} : RegisterUser(n, e, p)
DoRegisterDevice ==
    \E u \in UserIds, n \in DeviceNames, k \in PublicKeys, c \in Codes, g \in BackupCodeSets :
        RegisterDevice(u, n, k, c, g)
DoVerifyDevice ==
    \E c \in Codes, n \in DeviceNames, k \in PublicKeys : VerifyDevice(c, n, k)
DoDeleteDevice ==
    \E u \in UserIds, d \in DeviceIds : DeleteDevice(u, d)
DoResetDeviceRegistration ==
    \E n \in Usernames \cup {Null} : ResetDeviceRegistration(n)

ChallengeIds == {ChallengeId(n) : n \in 1..MaxChallenges}

\* the response (proof) the approving device sends
SuppliedResponse == "123456"

\* the userId and deviceId a request to the challenge routes may carry
RequestUserIds == {1, 2}
RequestDeviceIds == {1, 2}

DoRegisterAccount ==
    RegisterUser("alice", "alice@x.com", "Str0ng!Pass")
\* the account enrols its first device
DoEnrollDevice ==
    /\ nextDeviceId = 1
    /\ RegisterDevice(1, "phone", "pk1", "123456", "backup-A")
DoCreateChallenge ==
    \E r \in BOOLEAN : CreateChallenge(1, 1, r, "123456")
DoApproveChallenge ==
    \E c \in ChallengeIds, d \in RequestDeviceIds, u \in RequestUserIds :
        VerifyChallenge(c, SuppliedResponse, d, u)
DoGetChallengeStatus ==
    \E c \in ChallengeIds : GetChallengeStatus(c)
DoCompleteAuth ==
    \E c \in ChallengeIds, v \in Codes \cup {Null} : CompleteAuth(c, v)
DoResetPassword ==
    \E c \in ChallengeIds \cup {Null}, v \in Codes \cup {ApprovedMarker, Null} :
        ResetPassword("alice", "alice@x.com", "0ther!Pass", c, v)

\* the challenge engine with an account it serves
Next ==
    \/ DoRegisterAccount
    \/ DoEnrollDevice
    \/ DoCreateChallenge
    \/ DoApproveChallenge
    \/ DoGetChallengeStatus
    \/ DoCompleteAuth
    \/ DoResetPassword
    \/ Tick

Spec == Init /\ [][Next]_vars

\* the approval path of the challenge engine, which reads no account
DoVerifyChallenge ==
    \E c \in ChallengeIds \cup Codes, d \in RequestDeviceIds, u \in RequestUserIds :
        VerifyChallenge(c, SuppliedResponse, d, u)
DoCreateAnyChallenge ==
    \E u \in RequestUserIds, r \in BOOLEAN, c \in Codes :
        CreateChallenge(u, 1, r, c)

NextApprove ==
    \/ DoCreateAnyChallenge
    \/ DoVerifyChallenge
    \/ DoGetChallengeStatus
    \/ Tick

SpecApprove == Init /\ [][NextApprove]_vars

\* PUT /api/users/auth-challenge, first store round-trip: the request reads
\* the challenge document
ApproveRead(p, challengeId, deviceId, userId) ==
    /\ procs[p].pc = "idle"
    /\ LET k == LookupChallenge(challengeId) IN
       IF k = 0
       THEN /\ procs' = [procs EXCEPT ![p] = [IdleRequest EXCEPT
                           !.pc = "done", !.error = "Challenge not found"]]
            /\ resp' = Response("verifyChallenge", FALSE, "Challenge not found")
       ELSE /\ procs' = [procs EXCEPT ![p] = [IdleRequest EXCEPT
                           !.pc = "read", !.k = k, !.challenge = challenges[k],
                           !.deviceId = deviceId, !.userId = userId]]
            /\ UNCHANGED resp
    /\ UNCHANGED <<users, challenges, now, nextDeviceId, views>>

\* PUT /api/users/auth-challenge, second store round-trip: the request
\* decides on the document it read, writes the status and responds
ApproveWrite(p) ==
    /\ procs[p].pc = "read"
    /\ LET decision == VerifyDecision(procs[p].challenge, SuppliedResponse,
                                      procs[p].deviceId, procs[p].userId)
       IN /\ challenges' = IF decision.write = Null
                           THEN challenges
                           ELSE SetStatus(procs[p].k, decision.write)
          /\ procs' = [procs EXCEPT ![p].pc = "done",
                                    ![p].success = decision.success,
                                    ![p].error = decision.error]
          /\ resp' = Response("verifyChallenge", decision.success, decision.error)
    /\ UNCHANGED <<users, now, nextDeviceId, views>>

DoApproveRead ==
    \E p \in Requests, c \in ChallengeIds, d \in RequestDeviceIds, u \in RequestUserIds :
        ApproveRead(p, c, d, u)
DoApproveWrite ==
    \E p \in Requests : ApproveWrite(p)

\* approvals interleaved at their store round-trips
NextRace ==
    \/ DoCreateAnyChallenge
    \/ DoApproveRead
    \/ DoApproveWrite

SpecRace == Init /\ [][NextRace]_vars

\* the device registry on its own
NextDevices ==
    \/ DoRegisterUser
    \/ DoRegisterDevice
    \/ DoVerifyDevice
    \/ DoDeleteDevice
    \/ DoResetDeviceRegistration

SpecDevices == Init /\ [][NextDevices]_vars

\* ---------------------------------------------------------------- claims
HasVerifiedDevice(user) ==
    \E k \in 1..Len(user.devices) : user.devices[k].isVerified

\* C1: in every state reachable by device registration, verification,
\* removal and reset, an account with twoFactorEnabled has at least one
\* verified device.
C1_TwoFactorImpliesVerifiedDevice ==
    \A i \in 1..Len(users) :
        users[i].twoFactorEnabled => HasVerifiedDevice(users[i])

StatusAt(k) == challenges[k].status

C8_ApproveExpiry ==
    [][\A c \in ChallengeIds \cup Codes, d \in RequestDeviceIds, u \in RequestUserIds :
          VerifyChallenge(c, SuppliedResponse, d, u) =>
            LET k == LookupChallenge(c) IN
            (k # 0 /\ StatusAt(k) = "pending") =>
              /\ now > challenges[k].expiresAt =>
                    /\ ~resp'.success
                    /\ resp'.error = "Challenge has expired"
                    /\ challenges'[k].status = "expired"
              /\ now <= challenges[k].expiresAt =>
                    /\ resp'.error # "Challenge has expired"
                    /\ challenges'[k].status # "expired"]_vars

\* an approval arrived after the expiry and the challenge is stored expired
C8_Witness ==
    /\ resp.op = "verifyChallenge"
    /\ resp.error = "Challenge has expired"
    /\ \E k \in 1..Len(challenges) :
          StatusAt(k) = "expired" /\ now > challenges[k].expiresAt

\* C3: of two approve requests for the same pending, unexpired challenge,
\* both carrying the device and user it is bound to, exactly one returns
\* success and the other fails because the challenge is no longer valid.
C3_ExactlyOneApproveSucceeds ==
    LET Valid(p) == /\ procs[p].pc = "done"
                    /\ procs[p].k # 0
                    /\ procs[p].deviceId = procs[p].challenge.deviceId
                    /\ procs[p].userId = procs[p].challenge.userId
    IN (Valid(1) /\ Valid(2) /\ procs[1].k = procs[2].k) =>
         \E p, q \in Requests :
            /\ p # q
            /\ procs[p].success
            /\ ~procs[q].success
            /\ procs[q].error = "Challenge is no longer valid"

\* C4: complete-auth succeeds, and writes lastLoginAt, only for a challenge
\* whose stored status is approved and that has not expired, whatever its
\* purpose; otherwise it fails and leaves challenges and accounts unchanged.
C4_CompleteAuthNeedsApproval ==
    [][\A c \in ChallengeIds, v \in Codes \cup {Null} :
          CompleteAuth(c, v) =>
            LET k == FindChallengeById(c) IN
            IF resp'.success
            THEN /\ k # 0
                 /\ StatusAt(k) = "approved"
                 /\ now <= challenges[k].expiresAt
            ELSE UNCHANGED <<users, challenges>>]_vars

\* C5: an approval moves a challenge to approved only when the supplied
\* proof equals the challenge's verification code.
C5_ApprovedOnlyOnMatchingProof ==
    [][\A c \in ChallengeIds \cup Codes, d \in RequestDeviceIds, u \in RequestUserIds :
          VerifyChallenge(c, SuppliedResponse, d, u) =>
            \A k \in 1..Len(challenges) :
               (StatusAt(k) # "approved" /\ challenges'[k].status = "approved") =>
                  challenges[k].verificationCode = SuppliedResponse]_vars

\* C6: the stored secret (passwordHash, lastPasswordChangeAt) of a
\* 2FA-enabled account changes only if an unexpired password-reset challenge
\* bound to that account has status approved.
C6_ResetNeedsApprovedChallenge ==
    [][\A i \in 1..Len(users) :
          ( /\ users[i].twoFactorEnabled
            /\ \/ users'[i].passwordHash # users[i].passwordHash
               \/ users'[i].lastPasswordChangeAt # users[i].lastPasswordChangeAt ) =>
            \E k \in 1..Len(challenges) :
               /\ challenges[k].isPasswordReset
               /\ challenges[k].userId = users[i].id
               /\ now <= challenges[k].expiresAt
               /\ StatusAt(k) = "approved"]_vars

\* C7: no successful response carries a secret field of the account
\* (masterPassword, passwordHash, passwordSalt, encryptionKeySalt,
\* securityAnswer) in its account view.
C7_NoSecretInAccountView ==
    LET SecretFields == {"masterPassword", "passwordHash", "passwordSalt",
                         "encryptionKeySalt", "securityAnswer"}
    IN resp.success => resp.userFields \cap SecretFields = {}

\* C9: a poll after a challenge's expiresAt reports expired unless the
\* stored status is completed or used.
C9_PollReportsExpired ==
    [][\A c \in ChallengeIds :
          GetChallengeStatus(c) =>
            LET k == FindChallengeById(c) IN
            ( /\ k # 0
              /\ now > challenges[k].expiresAt
              /\ StatusAt(k) \notin {"completed", "used"} ) =>
                resp'.status = "expired"]_vars

\* C10: when a poll, approval, complete-auth or reset-password reads a
\* challenge that is pending and past its expiresAt, the stored status is
\* expired when the operation returns.
C10_ExpiryPersistedOnRead ==
    [][LET ReadsChallenge(k) ==
             LET id == challenges[k].id IN
             \/ GetChallengeStatus(id)
             \/ \E d \in RequestDeviceIds, u \in RequestUserIds :
                   VerifyChallenge(id, SuppliedResponse, d, u)
             \/ \E v \in Codes \cup {Null} : CompleteAuth(id, v)
             \/ /\ Len(users) >= 1
                /\ users[1].twoFactorEnabled
                /\ FindResetChallenge(id, users[1].id) = k
                /\ \E v \in Codes \cup {ApprovedMarker} :
                      ResetPassword("alice", "alice@x.com", "0ther!Pass", id, v)
       IN \A k \in 1..Len(challenges) :
             ( /\ StatusAt(k) = "pending"
               /\ now > challenges[k].expiresAt
               /\ ReadsChallenge(k) ) =>
                 challenges'[k].status = "expired"]_vars

\* ------------------------------------------------------------------- login
\* the logins the model lets happen after the first
MaxLogins == 1

\* the challenges logins may insert: the two of one loginUser, and one more
\* for every further login
LoginCapacity == MaxLogins + 1

\* user.devices?.[0]?.id when the account has no device
NoDeviceId == 0

\* verifyPassword(password, user.passwordHash, user.passwordSalt)
verifyPassword(password, hash, salt) == hashPassword(password, salt) = hash

\* every login is taken to need the second factor
RequiresTwoFactor_Always(user) == TRUE

\* if (user.twoFactorEnabled)
RequiresTwoFactor(user) == user.twoFactorEnabled

\* user.devices?.[0]?.id
FirstDeviceId(devices) == IF Len(devices) = 0 THEN NoDeviceId ELSE devices[1].id

\* the challenge document POST /api/users/login inserts as the n-th document
LoginChallenge(n, user, verificationCode) ==
    [id |-> ChallengeId(n),
     userId |-> user.id,
     deviceId |-> FirstDeviceId(user.devices),
     code |-> verificationCode,
     createdAt |-> now,
     expiresAt |-> ExpiresAt(now),
     status |-> "pending"]

\* the fields of the account view POST /api/users/login returns
LoginView == {"id", "username", "email", "twoFactorEnabled", "devices"}

\* what POST /api/users/login answers and the challenges it leaves
LoginResult(username, password, verificationCode) ==
    LET i == FindUserByUsername(username)
        Failure(error) == [success |-> FALSE, error |-> error, user |-> 0,
                           body |-> {}, challenges |-> challenges]
    IN IF i = 0
       THEN Failure("User not found")
       ELSE IF ~verifyPassword(password, users[i].passwordHash, users[i].passwordSalt)
       THEN Failure("Invalid password")
       ELSE IF RequiresTwoFactor(users[i])
       THEN [success |-> TRUE, error |-> "", user |-> i,
             body |-> {"user", "requiresTwoFactor", "verificationCode", "challengeId"},
             challenges |-> Append(challenges,
                 LoginChallenge(Len(challenges) + 1, users[i], verificationCode))]
       ELSE [success |-> TRUE, error |-> "", user |-> i,
             body |-> {"user"}, challenges |-> challenges]

\* POST /api/users/login
Login(username, password, verificationCode) ==
    /\ Len(challenges) < LoginCapacity
    /\ LET result == LoginResult(username, password, verificationCode) IN
       /\ challenges' = result.challenges
       /\ resp' = [Response("login", result.success, result.error) EXCEPT
                     !.userFields = IF result.success THEN LoginView ELSE {},
                     !.body = result.body]
    /\ UNCHANGED <<users, now, nextDeviceId, procs, views>>

\* loginUser of the client store: POST /api/users/login, then, for an account
\* with twoFactorEnabled, POST /api/users/auth-challenge
LoginUser(username, password, loginCode, verificationCode) ==
    /\ Len(challenges) + 2 <= LoginCapacity
    /\ LET result == LoginResult(username, password, loginCode) IN
       IF ~result.success
       THEN /\ challenges' = result.challenges
            /\ resp' = Response("loginUser", FALSE, result.error)
       ELSE IF users[result.user].twoFactorEnabled
       THEN LET deviceId == FirstDeviceId(users[result.user].devices) IN
            IF deviceId = NoDeviceId
            THEN /\ challenges' = result.challenges
                 /\ resp' = Response("loginUser", FALSE, "Missing required fields")
            ELSE /\ challenges' = Append(result.challenges,
                      NewChallenge(Len(result.challenges) + 1,
                                   users[result.user].id, deviceId, FALSE,
                                   verificationCode))
                 /\ resp' = [Response("loginUser", TRUE, "") EXCEPT
                               !.body = {"requiresTwoFactor", "verificationCode"}]
       ELSE /\ challenges' = result.challenges
            /\ resp' = Response("loginUser", TRUE, "")
    /\ UNCHANGED <<users, now, nextDeviceId, procs, views>>

LoginChallengeIds == {ChallengeId(n) : n \in 1..LoginCapacity}

DoBeginRegistration ==
    RegisterDevice(1, "phone", "pk1", "123456", "backup-A")
DoCompleteRegistration ==
    VerifyDevice("123456", "phone", "pk1")
DoLogin ==
    \E u \in Usernames, p \in Passwords : Login(u, p, "123456")
DoLoginUser ==
    \E u \in Usernames, p \in Passwords : LoginUser(u, p, "123456", "654321")
DoPollLogin ==
    \E c \in LoginChallengeIds : GetChallengeStatus(c)

DoRegisterSecondAccount ==
    RegisterUser("bob", "bob@x.com", "0ther!Pass")

\* logins of accounts, one of which has its devices registered and verified
\* meanwhile
NextLogin ==
    \/ DoRegisterAccount
    \/ DoRegisterSecondAccount
    \/ DoBeginRegistration
    \/ DoCompleteRegistration
    \/ DoLogin
    \/ DoLoginUser
    \/ DoPollLogin
    \/ Tick

SpecLogin == Init /\ [][NextLogin]_vars

\* C11: a login with correct credentials on a 2FA-enabled account binds the
\* new challenge to the most recently used of the account's verified
\* devices, and when the account has no verified device it fails and
\* creates no challenge.
C11_LoginBindsMostRecentVerifiedDevice ==
    [][\A u \in Usernames, p \in Passwords :
          Login(u, p, "123456") =>
            LET i == FindUserByUsername(u) IN
            ( /\ i # 0
              /\ users[i].twoFactorEnabled
              /\ verifyPassword(p, users[i].passwordHash, users[i].passwordSalt) ) =>
                LET devices == users[i].devices
                    verified == {k \in 1..Len(devices) : devices[k].isVerified}
                    mostRecent == {devices[k].id : k \in
                        {k \in verified : \A j \in verified :
                              devices[j].lastUsed <= devices[k].lastUsed}}
                IN IF verified = {}
                   THEN ~resp'.success /\ challenges' = challenges
                   ELSE /\ Len(challenges') = Len(challenges) + 1
                        /\ challenges'[Len(challenges')].deviceId \in mostRecent]_vars

\* C12: one loginUser with correct credentials on a 2FA-enabled account adds
\* exactly one challenge to the collection, pending and carrying a
\* six-digit code.
C12_LoginAddsOneChallenge ==
    [][\A u \in Usernames, p \in Passwords :
          LoginUser(u, p, "123456", "654321") =>
            LET i == FindUserByUsername(u) IN
            ( /\ i # 0
              /\ users[i].twoFactorEnabled
              /\ verifyPassword(p, users[i].passwordHash, users[i].passwordSalt) ) =>
                /\ Len(challenges') = Len(challenges) + 1
                /\ LET added == challenges'[Len(challenges')] IN
                   /\ added.status = "pending"
                   /\ IF "code" \in DOMAIN added
                      THEN added.code \in Codes
                      ELSE added.verificationCode \in Codes]_vars

\* C13: a login with the correct secret on an account whose twoFactorEnabled
\* is false succeeds, its response has no requiresTwoFactor, challengeId or
\* verificationCode key, and the challenge collection is unchanged.
C13_LoginWithoutTwoFactor ==
    [][\A u \in Usernames, p \in Passwords :
          (Login(u, p, "123456") \/ LoginUser(u, p, "123456", "654321")) =>
            LET i == FindUserByUsername(u) IN
            ( /\ i # 0
              /\ ~users[i].twoFactorEnabled
              /\ verifyPassword(p, users[i].passwordHash, users[i].passwordSalt) ) =>
                /\ resp'.success
                /\ resp'.body \cap {"requiresTwoFactor", "challengeId",
                                    "verificationCode"} = {}
                /\ challenges' = challenges]_vars

\* a login without the second factor has answered while another account's
\* challenge is in the collection
C13_Witness ==
    /\ resp.op = "login"
    /\ resp.success
    /\ resp.body = {"user"}
    /\ Len(challenges) > 0
    /\ \E i \in 1..Len(users) : ~users[i].twoFactorEnabled

\* C14: the login response for a username that does not exist equals, in
\* success flag and error text, the login response for an existing username
\* with a wrong secret.
C14_LoginFailuresIndistinguishable ==
    [][\A u \in Usernames, p \in Passwords :
          (Login(u, p, "123456") /\ FindUserByUsername(u) = 0) =>
            \A u2 \in Usernames, p2 \in Passwords :
               LET i == FindUserByUsername(u2) IN
               ( /\ i # 0
                 /\ ~verifyPassword(p2, users[i].passwordHash, users[i].passwordSalt) ) =>
                   /\ resp'.success = LoginResult(u2, p2, "123456").success
                   /\ resp'.error = LoginResult(u2, p2, "123456").error]_vars

DoBeginAnyRegistration ==
    \E u \in RequestUserIds, c \in Codes, g \in BackupCodeSets :
        RegisterDevice(u, "phone", "pk1", c, g)
DoRemoveDevice ==
    \E d \in RequestDeviceIds : DeleteDevice(1, d)

\* two accounts registering and completing devices, the first also removing
\* them
NextRegistration ==
    \/ DoRegisterAccount
    \/ DoRegisterSecondAccount
    \/ DoBeginAnyRegistration
    \/ DoCompleteRegistration
    \/ DoRemoveDevice

SpecRegistration == Init /\ [][NextRegistration]_vars

\* C15: a completeRegistration that follows a beginRegistration at once,
\* with the registration code that beginRegistration returned, succeeds and
\* leaves the device that beginRegistration created verified.
C15_RegistrationRoundTrip ==
    [][\A c \in Codes, n \in DeviceNames, pk \in PublicKeys :
          ( /\ resp.op = "registerDevice"
            /\ resp.success
            /\ \E i \in 1..Len(users) : \E k \in 1..Len(users[i].devices) :
                  /\ users[i].devices[k].id = nextDeviceId - 1
                  /\ users[i].devices[k].registrationCode = c
            /\ VerifyDevice(c, n, pk) ) =>
              /\ resp'.success
              /\ \E i \in 1..Len(users') : \E k \in 1..Len(users'[i].devices) :
                    /\ users'[i].devices[k].id = nextDeviceId - 1
                    /\ users'[i].devices[k].isVerified]_vars

\* C16: once a completeRegistration has succeeded with a registration code,
\* a second call with that code finds no device to verify, so it fails with
\* the invalid-code error and changes nothing.
C16_ConsumedCodeIsInvalid ==
    [][\A c \in Codes, n \in DeviceNames, pk \in PublicKeys :
          (VerifyDevice(c, n, pk) /\ resp'.success) =>
             (FindUserByPendingCode(c) = 0)']_vars

\* C17: beginRegistration for an account that does not resolve fails and
\* writes nothing; otherwise it appends exactly one device, unverified and
\* carrying the registration code, keeps the devices already there, and
\* stores newly generated backup codes exactly when the account had no
\* device, keeping the stored backup codes otherwise.
C17_BeginRegistrationEffect ==
    [][\A u \in UserIds, n \in DeviceNames, pk \in PublicKeys, c \in Codes,
          g \in BackupCodeSets :
          RegisterDevice(u, n, pk, c, g) =>
            LET i == FindUserById(u) IN
            IF i = 0
            THEN ~resp'.success /\ users' = users
            ELSE LET before == users[i].devices
                     after == users'[i].devices
                 IN /\ resp'.success
                    /\ Len(after) = Len(before) + 1
                    /\ \A k \in 1..Len(before) : after[k] = before[k]
                    /\ after[Len(after)].isVerified = FALSE
                    /\ after[Len(after)].registrationCode = c
                    /\ users'[i].backupCodes =
                          IF Len(before) = 0 THEN g ELSE users[i].backupCodes
                    /\ \A j \in 1..Len(users) : j # i => users'[j] = users[j]]_vars

\* a second device has just been registered for an account that keeps the
\* backup codes of its first registration
C17_Witness ==
    /\ resp.op = "registerDevice"
    /\ resp.success
    /\ \E i \in 1..Len(users) :
          /\ Len(users[i].devices) = 2
          /\ users[i].devices[2].id = nextDeviceId - 1
          /\ users[i].devices[2].isVerified = FALSE
          /\ users[i].devices[2].registrationCode \in Codes
          /\ users[i].backupCodes \in BackupCodeSets

\* C18: after a removeDevice of one of the account's devices has returned
\* success, twoFactorEnabled is false whenever no verified device remains.
C18_RemoveClearsFlagWithoutVerifiedDevice ==
    [][\A u \in UserIds, d \in DeviceIds :
          ( /\ DeleteDevice(u, d)
            /\ resp'.success
            /\ \E k \in 1..Len(users[u].devices) : users[u].devices[k].id = d ) =>
              (~HasVerifiedDevice(users'[u]) => ~users'[u].twoFactorEnabled)]_vars

\* C19: removeDevice with a deviceId that is not among the account's devices
\* fails and leaves the account unchanged.
C19_RemoveUnknownDeviceFails ==
    [][\A u \in UserIds, d \in DeviceIds :
          ( /\ DeleteDevice(u, d)
            /\ FindUserById(u) # 0
            /\ \A k \in 1..Len(users[u].devices) : users[u].devices[k].id # d ) =>
              /\ ~resp'.success
              /\ users' = users]_vars

\* ------------------------------------------------------- device pages
\* currentUser.id of the sessions
SessionUserId == 1

\* the ids of the devices array GET /api/users/devices returns for a document
DeviceIdsOf(user) == [k \in 1..Len(user.devices) |-> user.devices[k].id]

\* the ids a page lists
Listed(s) == {views[s][k] : k \in 1..Len(views[s])}

\* loadDevices: getDevices() and setDevices(result.devices)
LoadDevices(s) ==
    /\ FindUserById(SessionUserId) # 0
    /\ views' = [views EXCEPT ![s] = DeviceIdsOf(users[FindUserById(SessionUserId)])]
    /\ UNCHANGED <<users, challenges, now, nextDeviceId, resp, procs>>

\* handleRemoveDevice of the settings page: the guard on the listed devices,
\* removeDevice() of the store with its DELETE, then loadDevices()
HandleRemoveDevice(s, deviceId) ==
    /\ FindUserById(SessionUserId) # 0
    /\ deviceId \in Listed(s)
    /\ LET i == FindUserById(SessionUserId) IN
       IF Len(views[s]) <= 1
       THEN /\ resp' = Response("handleRemoveDevice", FALSE,
                                "Cannot remove the last registered device")
            /\ UNCHANGED <<users, views>>
       ELSE LET updatedUser == PullDevice(users[i], deviceId) IN
            /\ users' = SetUser(i, updatedUser)
            /\ views' = [views EXCEPT ![s] = DeviceIdsOf(updatedUser)]
            /\ resp' = Response("handleRemoveDevice", TRUE, "")
    /\ UNCHANGED <<challenges, now, nextDeviceId, procs>>

\* handleRemoveDevice of the device management component: removeDevice() of
\* the store with its DELETE, then the device filtered out of the list
ManageRemoveDevice(s, deviceId) ==
    /\ FindUserById(SessionUserId) # 0
    /\ deviceId \in Listed(s)
    /\ LET i == FindUserById(SessionUserId)
           Keep(d) == d # deviceId
       IN /\ users' = SetUser(i, PullDevice(users[i], deviceId))
          /\ views' = [views EXCEPT ![s] = SelectSeq(views[s], Keep)]
          /\ resp' = Response("handleRemoveDevice", TRUE, "")
    /\ UNCHANGED <<challenges, now, nextDeviceId, procs>>

DoLoadDevices ==
    \E s \in Sessions : LoadDevices(s)
DoHandleRemoveDevice ==
    \E s \in Sessions, d \in RequestDeviceIds : HandleRemoveDevice(s, d)
DoManageRemoveDevice ==
    \E s \in Sessions, d \in RequestDeviceIds : ManageRemoveDevice(s, d)

\* the sessions of one account registering devices and removing them
\* through the pages
NextSessions ==
    \/ DoRegisterAccount
    \/ DoBeginRegistration
    \/ DoCompleteRegistration
    \/ DoLoadDevices
    \/ DoHandleRemoveDevice
    \/ DoManageRemoveDevice

SpecSessions == Init /\ [][NextSessions]_vars

\* C20: a removal through a page of the only device of a 2FA-enabled
\* account is rejected with the cannot-remove-last-device error and changes
\* neither the device nor the flag; and no removal through a page takes an
\* account that has a device to zero devices.
C20_LastDeviceIsNotRemoved ==
    [][\A s \in Sessions, d \in RequestDeviceIds :
          (HandleRemoveDevice(s, d) \/ ManageRemoveDevice(s, d)) =>
            LET user == users[SessionUserId] IN
            /\ ( /\ user.twoFactorEnabled
                 /\ Len(user.devices) = 1
                 /\ user.devices[1].id = d ) =>
                   /\ ~resp'.success
                   /\ resp'.error = "Cannot remove the last registered device"
                   /\ users' = users
            /\ Len(user.devices) >= 1 =>
                   Len(users'[SessionUserId].devices) >= 1]_vars

\* ------------------------------------------------------------------ signup
\* POST /api/users (register): a request is answered with a conflict even
\* when the collection is full
SignUp(username, email, password) ==
    /\ Len(users) < MaxUsers \/ ExistingUser(username, email) # 0
    /\ Register(username, email, password)

DoSignUp ==
    \E u \in Usernames, e \in Emails, p \in Passwords : SignUp(u, e, p)

\* signups one after the other
NextSignup ==
    \/ DoSignUp
    \/ Tick

SpecSignup == Init /\ [][NextSignup]_vars

\* POST /api/users (register), first store round-trip: findOne
SignUpRead(p, username, email, password) ==
    /\ procs[p].pc = "idle"
    /\ procs' = [procs EXCEPT ![p] =
                   [pc |-> "read",
                    existing |-> ExistingUser(username, email),
                    error |-> IF ExistingUser(username, email) = 0 THEN ""
                              ELSE ConflictError(users[ExistingUser(username, email)],
                                                 username),
                    username |-> username,
                    email |-> email,
                    password |-> password]]
    /\ UNCHANGED <<users, challenges, now, nextDeviceId, resp, views>>

\* POST /api/users (register), second store round-trip: the response on a
\* conflict, insertOne otherwise
SignUpWrite(p) ==
    /\ procs[p].pc = "read"
    /\ IF procs[p].existing # 0
       THEN /\ resp' = Response("register", FALSE, procs[p].error)
            /\ UNCHANGED users
       ELSE LET newUser == NewUser(Len(users) + 1, procs[p].username,
                                   procs[p].email, procs[p].password)
            IN /\ Len(users) < MaxUsers
               /\ users' = Append(users, newUser)
               /\ resp' = [Response("register", TRUE, "") EXCEPT
                             !.userFields = SafeUser(newUser)]
    /\ procs' = [procs EXCEPT ![p].pc = "done"]
    /\ UNCHANGED <<challenges, now, nextDeviceId, views>>

\* signups interleaved at their store round-trips
NextSignupRace ==
    \/ \E p \in Requests, u \in Usernames, e \in Emails :
           SignUpRead(p, u, e, "Str0ng!Pass")
    \/ \E p \in Requests : SignUpWrite(p)

SpecSignupRace == Init /\ [][NextSignupRace]_vars

\* C21: after any interleaving of register requests no two accounts share a
\* username and no two share an email.
C21_NoDuplicateAccounts ==
    \A i, j \in 1..Len(users) :
       i # j => /\ users[i].username # users[j].username
                /\ users[i].email # users[j].email

\* C22 (as stated): a register whose username or email is taken fails and
\* inserts nothing, and its error is the username conflict whenever the
\* username is taken, the email conflict otherwise.
C22_UsernameConflictFirst ==
    [][\A u \in Usernames, e \in Emails, p \in Passwords :
          (SignUp(u, e, p) /\ ExistingUser(u, e) # 0) =>
             /\ ~resp'.success
             /\ users' = users
             /\ resp'.error =
                  IF \E i \in 1..Len(users) : users[i].username = u
                  THEN "Username already exists"
                  ELSE "Email already exists"]_vars

\* C22 (amended): a register whose username or email is taken fails and
\* inserts nothing; its error is the username conflict when the first
\* stored account that has the username or the email has the username, and
\* the email conflict otherwise (so when two accounts hold them, the one
\* stored first decides).
C22_FirstConflictReported ==
    [][\A u \in Usernames, e \in Emails, p \in Passwords :
          (SignUp(u, e, p) /\ ExistingUser(u, e) # 0) =>
             LET byUsername == {i \in 1..Len(users) : users[i].username = u}
                 byEmail == {i \in 1..Len(users) : users[i].email = e}
                 usernameFirst ==
                     /\ byUsername # {}
                     /\ \A j \in byEmail : \E i \in byUsername : i <= j
             IN /\ ~resp'.success
                /\ users' = users
                /\ resp'.error = IF usernameFirst
                                 THEN "Username already exists"
                                 ELSE "Email already exists"]_vars

\* every username is taken and a register has been answered with the email
\* conflict
C22_Witness ==
    /\ resp.op = "register"
    /\ resp.error = "Email already exists"
    /\ \A u \in Usernames : \E i \in 1..Len(users) : users[i].username = u

\* ---------------------------------------------------------- password reset form
\* the passwords typed into the reset form
NewPasswords == {"0ther!Pass", "Str0ng!Pass", "short"}

\* password.length and the character classes the strength check tests
PasswordShape(password) ==
    IF password = "short"
    THEN [length |-> 5, upper |-> FALSE, lower |-> TRUE, digit |-> FALSE, other |-> FALSE]
    ELSE IF password = "0ther!Pass"
    THEN [length |-> 10, upper |-> TRUE, lower |-> TRUE, digit |-> TRUE, other |-> TRUE]
    ELSE [length |-> 11, upper |-> TRUE, lower |-> TRUE, digit |-> TRUE, other |-> TRUE]

\* checkPasswordStrength
checkPasswordStrength(password) ==
    LET shape == PasswordShape(password)
        Point(b) == IF b THEN 1 ELSE 0
        score == Point(shape.length >= 8) + Point(shape.length >= 12)
                 + Point(shape.upper) + Point(shape.lower)
                 + Point(shape.digit) + Point(shape.other)
        half == score \div 2
    IN IF half < 4 THEN half ELSE 4

\* the confirmation is not compared
PasswordsMatch_Unchecked(newPassword, confirmPassword) == TRUE

\* resetData.newPassword !== resetData.confirmPassword is what rejects
PasswordsMatch(newPassword, confirmPassword) == newPassword = confirmPassword

\* GET /api/users?username: the lookup stamps lastLoginAt on the document
LookedUp(user) == [user EXCEPT !.lastLoginAt = now]

\* resetPassword of the client store, answering as op: GET /api/users, then
\* POST /api/users/auth-challenge for an account with twoFactorEnabled and
\* POST /api/users/reset-password otherwise
StoreReset(op, username, email, newPassword, verificationCode) ==
    LET i == FindUserByUsername(username) IN
    IF i = 0
    THEN /\ resp' = Response(op, FALSE, "User not found")
         /\ UNCHANGED <<users, challenges>>
    ELSE LET user == LookedUp(users[i])
             deviceId == FirstDeviceId(user.devices)
         IN IF user.twoFactorEnabled
            THEN IF deviceId = NoDeviceId
                 THEN /\ users' = SetUser(i, user)
                      /\ resp' = Response(op, FALSE, "Missing required fields")
                      /\ UNCHANGED challenges
                 ELSE /\ Len(challenges) < MaxChallenges
                      /\ users' = SetUser(i, user)
                      /\ challenges' = Append(challenges,
                            NewChallenge(Len(challenges) + 1, user.id, deviceId,
                                         TRUE, verificationCode))
                      /\ resp' = [Response(op, TRUE, "") EXCEPT
                                    !.body = {"requiresTwoFactor", "verificationCode"}]
            ELSE IF FindUserByUsernameAndEmail(username, email) = 0
            THEN /\ users' = SetUser(i, user)
                 /\ resp' = Response(op, FALSE, "User not found")
                 /\ UNCHANGED challenges
            ELSE /\ users' = SetUser(i, [user EXCEPT
                      !.passwordHash = hashPassword(newPassword, user.passwordSalt),
                      !.lastPasswordChangeAt = now])
                 /\ resp' = Response(op, TRUE, "")
                 /\ UNCHANGED challenges

\* resetPassword of the client store called with the form data as they are
StoreResetPassword(username, email, newPassword, confirmPassword) ==
    /\ StoreReset("resetPassword", username, email, newPassword, "123456")
    /\ UNCHANGED <<now, nextDeviceId, procs, views>>

\* handleReset of the auth page: the checks of the form, then resetPassword
HandleReset(username, email, newPassword, confirmPassword) ==
    /\ IF PasswordShape(newPassword).length < 8
       THEN /\ resp' = Response("handleReset", FALSE,
                                "Password must be at least 8 characters long")
            /\ UNCHANGED <<users, challenges>>
       ELSE IF ~PasswordsMatch(newPassword, confirmPassword)
       THEN /\ resp' = Response("handleReset", FALSE, "Passwords do not match")
            /\ UNCHANGED <<users, challenges>>
       ELSE IF checkPasswordStrength(newPassword) < 2
       THEN /\ resp' = Response("handleReset", FALSE,
                                "Please use a stronger password")
            /\ UNCHANGED <<users, challenges>>
       ELSE StoreReset("handleReset", username, email, newPassword, "123456")
    /\ UNCHANGED <<now, nextDeviceId, procs, views>>

\* password resets from the form and from the store of an account that may
\* enrol a device meanwhile
NextReset ==
    \/ DoRegisterAccount
    \/ DoEnrollDevice
    \/ \E e \in Emails, n \in NewPasswords, c \in NewPasswords :
           HandleReset("alice", e, n, c)
    \/ \E e \in Emails, n \in NewPasswords, c \in NewPasswords :
           StoreResetPassword("alice", e, n, c)
    \/ Tick

SpecReset == Init /\ [][NextReset]_vars

RandomBytes == 0..255

\* generateVerificationCode: 100000 + (array[0] % 900000), before toString()
generateVerificationCode(byte) == 100000 + (byte % 900000)

\* a call of generateVerificationCode with the random source giving byte
GenerateVerificationCode(byte) ==
    /\ resp' = [Response("generateVerificationCode", TRUE, "") EXCEPT
                  !.status = ToString(generateVerificationCode(byte))]
    /\ UNCHANGED <<users, challenges, now, nextDeviceId, procs, views>>

DoGenerateVerificationCode ==
    \E byte \in RandomBytes : GenerateVerificationCode(byte)

\* codes generated one after the other
NextCodes == DoGenerateVerificationCode

SpecCodes == Init /\ [][NextCodes]_vars

\* C24: every code generateVerificationCode returns is the decimal string of
\* a number in [100000, 999999], and its outputs over all values of the
\* random input are the whole of that range.
C24_CodesCoverRange ==
    LET outputs == {generateVerificationCode(byte) : byte \in RandomBytes} IN
    /\ resp.op = "generateVerificationCode" =>
          \E code \in outputs :
             /\ resp.status = ToString(code)
             /\ code >= 100000
             /\ code <= 999999
    /\ \A code \in outputs : code >= 100000 /\ code <= 999999
    /\ Cardinality(outputs) = 999999 - 100000 + 1

\* ------------------------------------------------- database connection
MAX_RETRIES == 3

\* what the database answers to one call of connectToDatabase: the number of
\* the connection attempt that succeeds (0: none does); attempts after the
\* one that succeeds are never made
FirstSuccesses == 0..(MAX_RETRIES + 1)

\* connectToDatabase(retryCount), with cached the module's cachedClient &&
\* cachedDb and pingOk the answer to the ping of the cached connection:
\* whether it returns a connection or throws, the number of
\* MongoClient.connect attempts it made, and the cache it leaves
RECURSIVE connectToDatabase(_, _, _, _)
connectToDatabase(retryCount, cached, pingOk, firstSuccess) ==
    IF cached /\ pingOk
    THEN [ok |-> TRUE, attempts |-> 0, cached |-> TRUE]
    ELSE IF retryCount + 1 = firstSuccess
    THEN [ok |-> TRUE, attempts |-> 1, cached |-> TRUE]
    ELSE IF retryCount < MAX_RETRIES
    THEN [connectToDatabase(retryCount + 1, FALSE, pingOk, firstSuccess)
            EXCEPT !.attempts = @ + 1]
    ELSE [ok |-> FALSE, attempts |-> 1, cached |-> FALSE]

\* a call connectToDatabase() of a request handler
ConnectToDatabase(cached, pingOk, firstSuccess) ==
    LET connection == connectToDatabase(0, cached, pingOk, firstSuccess) IN
    /\ resp' = [op |-> "connectToDatabase",
                success |-> connection.ok,
                error |-> IF connection.ok THEN ""
                          ELSE "Failed to connect to database after 3 attempts",
                status |-> Null, userFields |-> {}, body |-> {},
                attempts |-> connection.attempts]
    /\ UNCHANGED <<users, challenges, now, nextDeviceId, procs, views>>

\* ------------------------------------------------- store failures
\* the store operations of a handler that can throw
StoreOps == {"findOne", "insertOne", "updateOne"}

\* a request that ends in an exception thrown out of its handler
Uncaught(op) == [Response(op, FALSE, "") EXCEPT !.status = "uncaught"]

\* GET /api/users?username=: failing are the store operations that throw in
\* the try block; the catch block reconnects and logs the attempt (pingOk2,
\* firstSuccess2 and logOk are the answers it gets) before it responds.
\* The loginAttempts collection is written and never read.
LookupUser(username, cached, pingOk, firstSuccess, failing, pingOk2, firstSuccess2, logOk) ==
    LET connection == connectToDatabase(0, cached, pingOk, firstSuccess)
        i == IF username = Null THEN 0 ELSE FindUserByUsername(username)
        thrown == \/ ~connection.ok
                  \/ /\ username # Null
                     /\ \/ "findOne" \in failing
                        \/ "insertOne" \in failing
                        \/ i # 0 /\ "updateOne" \in failing
        reconnection == connectToDatabase(0, connection.cached, pingOk2, firstSuccess2)
    IN /\ IF ~thrown
          THEN IF username = Null
               THEN /\ resp' = Response("lookupUser", FALSE, "Username is required")
                    /\ UNCHANGED users
               ELSE IF i = 0
               THEN /\ resp' = Response("lookupUser", FALSE, "User not found")
                    /\ UNCHANGED users
               ELSE /\ users' = [users EXCEPT ![i] = LookedUp(users[i])]
                    /\ resp' = [Response("lookupUser", TRUE, "") EXCEPT
                                  !.userFields = DOMAIN users[i]]
          ELSE /\ UNCHANGED users
               /\ IF reconnection.ok /\ (username = Null \/ logOk)
                  THEN resp' = Response("lookupUser", FALSE, "Login failed")
                  ELSE resp' = Uncaught("lookupUser")
       /\ UNCHANGED <<challenges, now, nextDeviceId, procs, views>>

\* POST /api/users/login: its catch block answers without a store operation
LoginRequest(username, password, cached, pingOk, firstSuccess, failing) ==
    LET connection == connectToDatabase(0, cached, pingOk, firstSuccess)
        result == LoginResult(username, password, "123456")
        thrown == \/ ~connection.ok
                  \/ "findOne" \in failing
                  \/ result.challenges # challenges /\ "insertOne" \in failing
    IN IF thrown
       THEN /\ resp' = Response("login", FALSE, "Login failed")
            /\ UNCHANGED <<users, challenges, now, nextDeviceId, procs, views>>
       ELSE Login(username, password, "123456")

\* requests against a database that can fail at every operation
NextFaults ==
    \/ DoRegisterAccount
    \/ DoBeginRegistration
    \/ DoCompleteRegistration
    \/ \E cached \in BOOLEAN, pingOk \in BOOLEAN, firstSuccess \in FirstSuccesses :
           ConnectToDatabase(cached, pingOk, firstSuccess)
    \/ \E username \in Usernames \cup {Null}, cached \in BOOLEAN, pingOk \in BOOLEAN,
          firstSuccess \in FirstSuccesses, failing \in SUBSET StoreOps,
          pingOk2 \in BOOLEAN, firstSuccess2 \in FirstSuccesses, logOk \in BOOLEAN :
           LookupUser(username, cached, pingOk, firstSuccess, failing,
                      pingOk2, firstSuccess2, logOk)
    \/ \E username \in Usernames, password \in Passwords, cached \in BOOLEAN,
          pingOk \in BOOLEAN, firstSuccess \in FirstSuccesses,
          failing \in SUBSET StoreOps :
           LoginRequest(username, password, cached, pingOk, firstSuccess, failing)

SpecFaults == Init /\ [][NextFaults]_vars

\* C25: a call of connectToDatabase whose connection attempts all fail makes
\* at most 3 attempts before it throws.
C25_AtMostThreeAttempts ==
    (resp.op = "connectToDatabase" /\ ~resp.success) => resp.attempts <= 3

\* C26: every request to the login and user-lookup handlers ends in a
\* {success, error} response; no failure of a store operation or of the
\* reconnection leaves the handler as an exception.
C26_NoUncaughtStoreFailure ==
    resp.op \in {"lookupUser", "login"} => resp.status # "uncaught"

\* challenges created by the challenge route and by the login route
NextCreate ==
    \/ DoRegisterAccount
    \/ DoBeginRegistration
    \/ DoCompleteRegistration
    \/ /\ Len(challenges) < LoginCapacity
       /\ \E u \in {0, 1}, d \in {0, 1}, r \in BOOLEAN :
             PostChallenge(u, d, r, "123456")
    \/ DoLogin
    \/ Tick

SpecCreate == Init /\ [][NextCreate]_vars

C28_OneLiveChallengePerPurpose ==
    LET Purpose(challenge) ==
            IF "isPasswordReset" \in DOMAIN challenge /\ challenge.isPasswordReset
            THEN "password-reset"
            ELSE "login"
        Live(challenge) == IsPending(challenge) /\ ~IsExpired(challenge)
    IN \A i \in 1..Len(challenges), j \in 1..Len(challenges) :
          (/\ i # j
           /\ challenges[i].userId = challenges[j].userId
           /\ Purpose(challenges[i]) = Purpose(challenges[j])
           /\ Live(challenges[i])) => ~Live(challenges[j])

\* C29: a reset of the devices of an account that succeeds leaves every device
\* of the account unverified and without registration code, removes no
\* device, and no registration code its devices carried completes a
\* registration afterwards; for a username that resolves to no account it
\* fails and writes nothing.
C29_ResetInvalidatesRegistration ==
    [][\A n \in Usernames \cup {Null} :
          ResetDeviceRegistration(n) =>
             LET i == IF n = Null THEN 0 ELSE FindUserByUsername(n) IN
             IF i = 0
             THEN ~resp'.success /\ users' = users
             ELSE /\ resp'.success
                  /\ Len(users'[i].devices) = Len(users[i].devices)
                  /\ \A k \in 1..Len(users[i].devices) :
                        /\ users'[i].devices[k].id = users[i].devices[k].id
                        /\ users'[i].devices[k].isVerified = FALSE
                        /\ users'[i].devices[k].registrationCode = Null
                        /\ \A c \in Codes :
                              c = users[i].devices[k].registrationCode =>
                                 (FindUserByPendingCode(c) = 0)']_vars

\* C30: an approve whose deviceId or userId differs from the device or the
\* account a pending challenge is bound to fails, leaves the status of the
\* challenge pending and changes no device.
C30_MismatchLeavesPending ==
    [][\A c \in ChallengeIds, d \in RequestDeviceIds, u \in RequestUserIds :
          (/\ resp'.op = "verifyChallenge"
           /\ LookupChallenge(c) # 0
           /\ challenges[LookupChallenge(c)].status = "pending"
           /\ \/ challenges[LookupChallenge(c)].deviceId # d
              \/ challenges[LookupChallenge(c)].userId # u
           /\ VerifyChallenge(c, SuppliedResponse, d, u))
          => /\ ~resp'.success
             /\ challenges'[LookupChallenge(c)].status = "pending"
             /\ users' = users]_vars

\* C30 (amended): such an approve fails and changes no device; it leaves the
\* status pending when the challenge has not expired and sets it to expired
\* when it has.
C30_MismatchNeverApproves ==
    [][\A c \in ChallengeIds, d \in RequestDeviceIds, u \in RequestUserIds :
          (/\ resp'.op = "verifyChallenge"
           /\ LookupChallenge(c) # 0
           /\ challenges[LookupChallenge(c)].status = "pending"
           /\ \/ challenges[LookupChallenge(c)].deviceId # d
              \/ challenges[LookupChallenge(c)].userId # u
           /\ VerifyChallenge(c, SuppliedResponse, d, u))
          => /\ ~resp'.success
             /\ challenges'[LookupChallenge(c)].status =
                   IF now > challenges[LookupChallenge(c)].expiresAt
                   THEN "expired"
                   ELSE "pending"
             /\ users' = users]_vars

\* a mismatched approve of an unexpired challenge of an account with a device
C30_Witness ==
    /\ resp.op = "verifyChallenge"
    /\ resp.error = "Invalid device or user"
    /\ Len(challenges) > 0
    /\ challenges[1].status = "pending"
    /\ now <= challenges[1].expiresAt
    /\ Len(users) > 0
    /\ Len(users[1].devices) > 0

\* ------------------------------------------------- challenges by code
\* the challenge document POST /api/challenges inserts as the n-th document
CodeChallenge(n, userId, deviceName, code) ==
    [id |-> ChallengeId(n),
     userId |-> userId,
     deviceName |-> deviceName,
     code |-> code,
     createdAt |-> now,
     expiresAt |-> ExpiresAt(now),
     status |-> "pending"]

\* POST /api/challenges (the companion device creates a challenge for a code)
PostCodeChallenge(userId, deviceName, code) ==
    /\ challenges' = Append(challenges,
                            CodeChallenge(Len(challenges) + 1, userId, deviceName, code))
    /\ resp' = [Response("createCodeChallenge", TRUE, "") EXCEPT
                  !.body = {"challenge"}]
    /\ UNCHANGED <<users, now, nextDeviceId, procs, views>>

\* a create request while the collection has room
CreateCodeChallenge(userId, deviceName, code) ==
    /\ Len(challenges) < MaxChallenges
    /\ PostCodeChallenge(userId, deviceName, code)

\* findOne({ userId, code, status: 'pending', expiresAt: { $gt: new Date() } })
FindPendingByCode(userId, code) ==
    First({k \in 1..Len(challenges) :
             /\ "code" \in DOMAIN challenges[k]
             /\ challenges[k].userId = userId
             /\ challenges[k].code = code
             /\ challenges[k].status = "pending"
             /\ challenges[k].expiresAt > now})

\* GET /api/challenges, first store round-trip: the request looks the
\* challenge up
ResolveRead(p, userId, code) ==
    /\ procs[p].pc = "idle"
    /\ LET k == FindPendingByCode(userId, code) IN
       IF k = 0
       THEN /\ procs' = [procs EXCEPT ![p] = [IdleRequest EXCEPT
                           !.pc = "done", !.userId = userId,
                           !.error = "Invalid or expired challenge"]]
            /\ resp' = Response("resolveByCode", FALSE, "Invalid or expired challenge")
       ELSE /\ procs' = [procs EXCEPT ![p] = [IdleRequest EXCEPT
                           !.pc = "read", !.k = k, !.challenge = challenges[k],
                           !.userId = userId]]
            /\ UNCHANGED resp
    /\ UNCHANGED <<users, challenges, now, nextDeviceId, views>>

\* GET /api/challenges, second store round-trip: updateOne({ id }) sets the
\* status and the request returns the document it read
ResolveWrite(p) ==
    /\ procs[p].pc = "read"
    /\ challenges' = SetStatus(procs[p].k, "completed")
    /\ procs' = [procs EXCEPT ![p].pc = "done", ![p].success = TRUE]
    /\ resp' = [Response("resolveByCode", TRUE, "") EXCEPT
                  !.status = procs[p].challenge.status,
                  !.body = {"challenge"}]
    /\ UNCHANGED <<users, now, nextDeviceId, views>>

\* resolutions by code interleaved at their store round-trips
NextResolveRace ==
    \/ \E u \in RequestUserIds, c \in Codes : CreateCodeChallenge(u, "phone", c)
    \/ \E p \in Requests, u \in RequestUserIds, c \in Codes : ResolveRead(p, u, c)
    \/ \E p \in Requests : ResolveWrite(p)
    \/ Tick

SpecResolveRace == Init /\ [][NextResolveRace]_vars

\* C31: a resolveByCode call returns a challenge only if it belongs to the
\* account of the call, is pending and unexpired when it is read, and no
\* challenge is returned by two calls, interleaved or not.
C31_ResolvedAtMostOnce ==
    /\ \A p \in Requests :
          (procs[p].pc = "done" /\ procs[p].success) =>
             /\ procs[p].challenge.userId = procs[p].userId
             /\ procs[p].challenge.status = "pending"
    /\ \A p \in Requests, q \in Requests :
          (/\ p # q
           /\ procs[p].pc = "done" /\ procs[p].success
           /\ procs[q].pc = "done" /\ procs[q].success)
          => procs[p].k # procs[q].k

\* ------------------------------------------------- companion device polling
\* the checks of a mounted confirmation screen the model follows
MaxChecks == 11

maxAttempts == 10

\* milliseconds between two checks of handleVerify
checkInterval == 2000

\* setInterval(checkForConfirmations, 5000)
confirmationInterval == 5000

\* handleVerify, up to the loop: POST /api/challenges with the code entered
HandleVerifyStart(p, userId, code) ==
    /\ procs[p].pc = "idle"
    /\ Len(challenges) < MaxChallenges
    /\ challenges' = Append(challenges,
                            CodeChallenge(Len(challenges) + 1, userId, "phone", code))
    /\ resp' = [Response("createCodeChallenge", TRUE, "") EXCEPT
                  !.body = {"challenge"}]
    /\ procs' = [procs EXCEPT ![p] =
                   [pc |-> "polling", loop |-> "handleVerify", attempts |-> 0,
                    checks |-> 0, interval |-> checkInterval, userId |-> userId,
                    code |-> code, success |-> FALSE, error |-> ""]]
    /\ UNCHANGED <<users, now, nextDeviceId, views>>

\* handleVerify, one turn of the loop: GET /api/challenges?userId=&code=,
\* then success, or the wait, attempts++ and the test of the loop
HandleVerifyCheck(p) ==
    /\ procs[p].pc = "polling"
    /\ procs[p].loop = "handleVerify"
    /\ procs[p].attempts < maxAttempts
    /\ LET k == FindPendingByCode(procs[p].userId, procs[p].code) IN
       IF k # 0
       THEN /\ challenges' = SetStatus(k, "completed")
            /\ resp' = [Response("resolveByCode", TRUE, "") EXCEPT
                          !.status = challenges[k].status,
                          !.body = {"challenge"}]
            /\ procs' = [procs EXCEPT ![p].pc = "done",
                                      ![p].checks = @ + 1,
                                      ![p].success = TRUE]
       ELSE /\ UNCHANGED challenges
            /\ resp' = Response("resolveByCode", FALSE, "Invalid or expired challenge")
            /\ procs' = [procs EXCEPT
                  ![p].checks = @ + 1,
                  ![p].attempts = @ + 1,
                  ![p].pc = IF procs[p].attempts + 1 < maxAttempts
                            THEN "polling" ELSE "done",
                  ![p].error = IF procs[p].attempts + 1 < maxAttempts
                               THEN ""
                               ELSE "Verification timed out. Please try again."]
    /\ UNCHANGED <<users, now, nextDeviceId, views>>

\* LoginConfirmationScreen is mounted: the effect calls checkForConfirmations
\* once and starts the interval; found is whether checkLoginConfirmations
\* reports a confirmation
MountConfirmationScreen(p, found) ==
    /\ procs[p].pc = "idle"
    /\ procs' = [procs EXCEPT ![p] =
                   [pc |-> "polling", loop |-> "checkForConfirmations",
                    attempts |-> 0, checks |-> 1, interval |-> confirmationInterval,
                    confirmation |-> found, success |-> FALSE, error |-> ""]]
    /\ UNCHANGED <<users, challenges, now, nextDeviceId, resp, views>>

\* the interval of LoginConfirmationScreen fires: checkForConfirmations
CheckForConfirmations(p, found) ==
    /\ procs[p].pc = "polling"
    /\ procs[p].loop = "checkForConfirmations"
    /\ procs[p].checks < MaxChecks
    /\ procs' = [procs EXCEPT ![p].checks = @ + 1,
                              ![p].confirmation = @ \/ found]
    /\ UNCHANGED <<users, challenges, now, nextDeviceId, resp, views>>

\* LoginConfirmationScreen is unmounted: clearInterval
UnmountConfirmationScreen(p) ==
    /\ procs[p].pc = "polling"
    /\ procs[p].loop = "checkForConfirmations"
    /\ procs' = [procs EXCEPT ![p].pc = "done"]
    /\ UNCHANGED <<users, challenges, now, nextDeviceId, resp, views>>

\* the screens of the companion device
NextPolling ==
    \/ \E p \in Requests, c \in Codes : HandleVerifyStart(p, 1, c)
    \/ \E p \in Requests : HandleVerifyCheck(p)
    \/ \E p \in Requests, found \in BOOLEAN : MountConfirmationScreen(p, found)
    \/ \E p \in Requests, found \in BOOLEAN : CheckForConfirmations(p, found)
    \/ \E p \in Requests : UnmountConfirmationScreen(p)
    \/ Tick

SpecPolling == Init /\ [][NextPolling]_vars

\* C32: a polling loop of the companion device issues at most 10 status
\* checks, 2 seconds apart, and when none of them succeeded it ends with the
\* timeout error after the tenth.
C32_PollingIsBounded ==
    \A p \in Requests :
       procs[p].pc \in {"polling", "done"} =>
          /\ procs[p].checks <= 10
          /\ procs[p].interval = 2000
          /\ (procs[p].pc = "done" /\ ~procs[p].success) =>
                /\ procs[p].checks = 10
                /\ procs[p].error = "Verification timed out. Please try again."

\* two accounts beginning registrations, completed under another name, with
\* removals and resets in between
NextCompletion ==
    \/ DoRegisterAccount
    \/ DoRegisterSecondAccount
    \/ DoBeginAnyRegistration
    \/ \E c \in Codes, k \in PublicKeys : VerifyDevice(c, "renamed-phone", k)
    \/ DoRemoveDevice
    \/ DoResetDeviceRegistration

SpecCompletion == Init /\ [][NextCompletion]_vars

\* C33: a completeRegistration that succeeds leaves one device, which carried
\* the registration code, with the name and the public key of that call and
\* without registration code, and every other device of every account as it
\* was.
C33_CompletionStoresSuppliedIdentity ==
    [][\A c \in Codes, key \in PublicKeys :
          (/\ resp'.op = "verifyDevice"
           /\ resp'.success
           /\ VerifyDevice(c, "renamed-phone", key))
          => /\ Len(users') = Len(users)
             /\ \A i \in 1..Len(users) :
                   Len(users'[i].devices) = Len(users[i].devices)
             /\ \E i \in 1..Len(users) : \E j \in 1..Len(users[i].devices) :
                   /\ users[i].devices[j].registrationCode = c
                   /\ users'[i].devices[j].name = "renamed-phone"
                   /\ users'[i].devices[j].publicKey = key
                   /\ users'[i].devices[j].registrationCode = Null
                   /\ users'[i].devices[j].isVerified
                   /\ \A i2 \in 1..Len(users) : \A j2 \in 1..Len(users[i2].devices) :
                         (i2 # i \/ j2 # j) =>
                            users'[i2].devices[j2] = users[i2].devices[j2]]_vars

\* a device registered as phone with pk1 was completed with another name and
\* key while another device was registered
C33_Witness ==
    /\ resp.op = "verifyDevice"
    /\ resp.success
    /\ \E i \in 1..Len(users) : \E j \in 1..Len(users[i].devices) :
          /\ users[i].devices[j].name = "renamed-phone"
          /\ users[i].devices[j].publicKey = "pk2"
          /\ users[i].devices[j].lastUsed = now
    /\ \E i \in 1..Len(users) : \E j \in 1..Len(users[i].devices) :
          users[i].devices[j].name = "phone"

\* C34: once reset-password has marked a challenge used, every later
\* reset-password request that presents that challenge, with its code or with
\* the approved marker, fails and leaves the accounts unchanged.
C34_UsedChallengeAuthorizesNothing ==
    [][\A c \in ChallengeIds, v \in Codes \cup {ApprovedMarker} :
          (/\ resp'.op = "resetPassword"
           /\ FindChallengeById(c) # 0
           /\ challenges[FindChallengeById(c)].status = "used"
           /\ ResetPassword("alice", "alice@x.com", "0ther!Pass", c, v))
          => /\ ~resp'.success
             /\ users' = users]_vars

\* ------------------------------------------------- complete-auth, interleaved
\* POST /api/users/complete-auth, first store round-trip: the request reads
\* the challenge document
CompleteAuthRead(p, challengeId) ==
    /\ procs[p].pc = "idle"
    /\ LET k == FindChallengeById(challengeId) IN
       IF k = 0
       THEN /\ procs' = [procs EXCEPT ![p] = [IdleRequest EXCEPT
                           !.pc = "done", !.error = "Challenge not found"]]
            /\ resp' = Response("completeAuth", FALSE, "Challenge not found")
       ELSE /\ procs' = [procs EXCEPT ![p] = [IdleRequest EXCEPT
                           !.pc = "read", !.k = k, !.challenge = challenges[k]]]
            /\ UNCHANGED resp
    /\ UNCHANGED <<users, challenges, now, nextDeviceId, views>>

\* POST /api/users/complete-auth, the rest: the request decides on the
\* document it read, looks the user up, writes the status completed and the
\* login time, and responds
CompleteAuthWrite(p, verificationCode) ==
    /\ procs[p].pc = "read"
    /\ LET challenge == procs[p].challenge
           isLogin == ~challenge.isPasswordReset
           i == FindUserById(challenge.userId)
           error == IF IsExpired(challenge) THEN "Challenge expired"
                    ELSE IF isLogin /\ challenge.status # "approved"
                    THEN "Challenge not yet approved"
                    ELSE IF ~isLogin /\ verificationCode = Null
                    THEN "Missing required field: verificationCode"
                    ELSE IF ~isLogin /\ challenge.verificationCode # verificationCode
                    THEN "Invalid verification code"
                    ELSE IF i = 0 THEN "User not found"
                    ELSE ""
       IN IF error # ""
          THEN /\ procs' = [procs EXCEPT ![p].pc = "done", ![p].error = error]
               /\ resp' = Response("completeAuth", FALSE, error)
               /\ UNCHANGED <<users, challenges>>
          ELSE /\ challenges' = SetStatus(procs[p].k, "completed")
               /\ users' = SetUser(i, [users[i] EXCEPT
                     !.lastLoginAt = now,
                     !.twoFactorEnabled = IF isLogin THEN TRUE ELSE @])
               /\ procs' = [procs EXCEPT ![p].pc = "done", ![p].success = TRUE]
               /\ resp' = [Response("completeAuth", TRUE, "") EXCEPT
                             !.userFields = DOMAIN users[i] \ {"masterPassword"}]
    /\ UNCHANGED <<now, nextDeviceId, views>>

\* complete-auth requests interleaved at their store round-trips
NextCompleteRace ==
    \/ DoRegisterAccount
    \/ DoCreateChallenge
    \/ \E c \in ChallengeIds : VerifyChallenge(c, SuppliedResponse, 1, 1)
    \/ \E p \in Requests, c \in ChallengeIds : CompleteAuthRead(p, c)
    \/ \E p \in Requests, v \in Codes \cup {Null} : CompleteAuthWrite(p, v)
    \/ Tick

SpecCompleteRace == Init /\ [][NextCompleteRace]_vars

\* C35: of the complete-auth calls for one login challenge, interleaved or
\* not, at most one returns success.
C35_OneSessionPerChallenge ==
    \A p \in Requests, q \in Requests :
       (/\ p # q
        /\ procs[p].pc = "done" /\ procs[p].success
        /\ procs[q].pc = "done" /\ procs[q].success
        /\ procs[p].k = procs[q].k)
       => procs[p].challenge.isPasswordReset

NextApproveByCode ==
    \/ /\ Len(challenges) < LoginCapacity
       /\ \E u \in RequestUserIds : PostChallenge(u, 1, FALSE, "123456")
    \/ \E u \in RequestUserIds : VerifyChallenge("123456", SuppliedResponse, 1, u)
    \/ Tick

SpecApproveByCode == Init /\ [][NextApproveByCode]_vars

\* C36: an approve that carries a verification code in place of the challenge
\* id, while the account and device of the caller have a pending, unexpired
\* challenge with that code, succeeds and approves such a challenge, whatever
\* other challenges carry the code.
C36_ApproveByCodeFindsOwnChallenge ==
    [][\A u \in RequestUserIds :
          LET Own == {k \in 1..Len(challenges) :
                        /\ challenges[k].userId = u
                        /\ challenges[k].deviceId = 1
                        /\ challenges[k].verificationCode = "123456"
                        /\ challenges[k].status = "pending"
                        /\ now <= challenges[k].expiresAt}
          IN (/\ resp'.op = "verifyChallenge"
              /\ Own # {}
              /\ VerifyChallenge("123456", SuppliedResponse, 1, u))
             => /\ resp'.success
                /\ \E k \in Own : challenges'[k].status = "approved"]_vars

\* C37: a completeRegistration changes at most one device, and only a device
\* that carried the supplied registration code and was unverified, also when
\* several devices carry that code.
C37_CompletionTouchesOnePendingDevice ==
    [][\A c \in Codes, key \in PublicKeys :
          (/\ resp'.op = "verifyDevice"
           /\ VerifyDevice(c, "renamed-phone", key))
          => LET Changed == {d \in {<<i, j>> : i \in 1..Len(users), j \in 1..MaxDevices} :
                               /\ d[2] <= Len(users[d[1]].devices)
                               /\ users'[d[1]].devices[d[2]] # users[d[1]].devices[d[2]]}
             IN /\ Cardinality(Changed) <= 1
                /\ resp'.success <=> Changed # {}
                /\ \A d \in Changed :
                      /\ users[d[1]].devices[d[2]].registrationCode = c
                      /\ ~users[d[1]].devices[d[2]].isVerified]_vars

\* a completion in an account whose other device is still pending
C37_Witness ==
    /\ resp.op = "verifyDevice"
    /\ resp.success
    /\ \E i \in 1..Len(users) :
          /\ Len(users[i].devices) = 2
          /\ \E j \in 1..2 :
                /\ users[i].devices[j].isVerified
                /\ users[i].devices[j].lastUsed = now
                /\ ~users[i].devices[3 - j].isVerified
                /\ users[i].devices[3 - j].registrationCode \in Codes

\* ------------------------------------------------- device routes, interleaved
\* DELETE /api/users/devices, first store round-trip: findOne({ id: userId })
DeleteRead(p, userId, deviceId) ==
    /\ procs[p].pc = "idle"
    /\ LET i == FindUserById(userId) IN
       IF i = 0
       THEN /\ procs' = [procs EXCEPT ![p] =
                           [pc |-> "done", op |-> "deleteDevice", success |-> FALSE]]
            /\ resp' = Response("deleteDevice", FALSE, "User not found")
       ELSE /\ procs' = [procs EXCEPT ![p] =
                           [pc |-> "pull", op |-> "deleteDevice", success |-> FALSE,
                            i |-> i, deviceId |-> deviceId, user |-> users[i]]]
            /\ UNCHANGED resp
    /\ UNCHANGED <<users, challenges, now, nextDeviceId, views>>

\* DELETE, second round-trip: updateOne with $pull of the device
DeletePull(p) ==
    /\ procs[p].pc = "pull"
    /\ LET i == procs[p].i
           Keep(d) == d.id # procs[p].deviceId
           remainingDevices == SelectSeq(procs[p].user.devices, Keep)
       IN /\ users' = SetUser(i, [users[i] EXCEPT
                                    !.devices = SelectSeq(@, Keep)])
          /\ IF Len(remainingDevices) = 0
             THEN /\ procs' = [procs EXCEPT ![p].pc = "flag"]
                  /\ UNCHANGED resp
             ELSE /\ procs' = [procs EXCEPT ![p].pc = "done", ![p].success = TRUE]
                  /\ resp' = Response("deleteDevice", TRUE, "")
    /\ UNCHANGED <<challenges, now, nextDeviceId, views>>

\* DELETE, third round-trip, when the devices it read leave none:
\* updateOne with $set twoFactorEnabled false
DeleteFlag(p) ==
    /\ procs[p].pc = "flag"
    /\ users' = SetUser(procs[p].i, [users[procs[p].i] EXCEPT
                                       !.twoFactorEnabled = FALSE])
    /\ procs' = [procs EXCEPT ![p].pc = "done", ![p].success = TRUE]
    /\ resp' = Response("deleteDevice", TRUE, "")
    /\ UNCHANGED <<challenges, now, nextDeviceId, views>>

\* POST /api/users/devices, first store round-trip: findOne({ id: userId })
RegisterRead(p, userId) ==
    /\ procs[p].pc = "idle"
    /\ nextDeviceId <= MaxDevices
    /\ LET i == FindUserById(userId) IN
       IF i = 0
       THEN /\ procs' = [procs EXCEPT ![p] =
                           [pc |-> "done", op |-> "registerDevice", success |-> FALSE]]
            /\ resp' = Response("registerDevice", FALSE, "User not found")
       ELSE /\ procs' = [procs EXCEPT ![p] =
                           [pc |-> "push", op |-> "registerDevice", success |-> FALSE,
                            i |-> i, user |-> users[i]]]
            /\ UNCHANGED resp
    /\ UNCHANGED <<users, challenges, now, nextDeviceId, views>>

\* POST, second round-trip: updateOne with $push of the new device and $set
\* of backupCodes and twoFactorEnabled
RegisterWrite(p, registrationCode, generated) ==
    /\ procs[p].pc = "push"
    /\ nextDeviceId <= MaxDevices
    /\ LET i == procs[p].i
           newDevice == [id |-> nextDeviceId,
                         name |-> "phone",
                         publicKey |-> "pk1",
                         lastUsed |-> now,
                         createdAt |-> now,
                         isVerified |-> FALSE,
                         registrationCode |-> registrationCode]
           backupCodes == IF NeedsBackupCodes(procs[p].user)
                          THEN generated
                          ELSE procs[p].user.backupCodes
       IN users' = SetUser(i, [users[i] EXCEPT
                                 !.devices = Append(@, newDevice),
                                 !.backupCodes = backupCodes,
                                 !.twoFactorEnabled = TRUE])
    /\ nextDeviceId' = nextDeviceId + 1
    /\ procs' = [procs EXCEPT ![p].pc = "done", ![p].success = TRUE]
    /\ resp' = Response("registerDevice", TRUE, "")
    /\ UNCHANGED <<challenges, now, views>>

\* a removal and a registration on one account, interleaved at their store
\* round-trips
NextDeviceRace ==
    \/ DoRegisterAccount
    \/ DoEnrollDevice
    \/ \E p \in Requests, d \in RequestDeviceIds : DeleteRead(p, 1, d)
    \/ \E p \in Requests : DeletePull(p)
    \/ \E p \in Requests : DeleteFlag(p)
    \/ \E p \in Requests : RegisterRead(p, 1)
    \/ \E p \in Requests, g \in BackupCodeSets : RegisterWrite(p, "654321", g)

SpecDeviceRace == Init /\ [][NextDeviceRace]_vars

\* C38: when a removeDevice and a beginRegistration on one account have both
\* finished, twoFactorEnabled is false exactly when the account has no
\* device.
C38_FlagMatchesDevicesAfterRace ==
    (/\ \A p \in Requests : procs[p].pc = "done" /\ procs[p].success
     /\ \E p \in Requests : procs[p].op = "deleteDevice"
     /\ \E p \in Requests : procs[p].op = "registerDevice")
    => \A i \in 1..Len(users) :
          (users[i].twoFactorEnabled = FALSE) <=> (Len(users[i].devices) = 0)

\* C39: a status check of handleVerify returns success only after another
\* party has acted on the challenge: while every challenge of the account
\* with the code entered is still pending, as created, the check does not
\* succeed.
C39_OwnChecksNeverSucceed ==
    [][\A p \in Requests :
          (/\ procs[p].pc = "polling"
           /\ procs[p].loop = "handleVerify"
           /\ \A k \in 1..Len(challenges) :
                 (/\ challenges[k].userId = procs[p].userId
                  /\ challenges[k].code = procs[p].code)
                 => challenges[k].status = "pending"
           /\ HandleVerifyCheck(p))
          => ~procs'[p].success]_vars

====
